---- MODULE Spec2Model ----
(***************************************************************************)
(* The multi-agent orchestration layer of gringo-ai-os                     *)
(* (multi_agent_orchestrator.py): the agent registry, the process runner   *)
(* (spawn_agent), the parallel dispatcher (orchestrate_parallel), the      *)
(* feature pipeline (run_feature_pipeline), the summary (get_summary) and  *)
(* the result history.  One caller thread drives the orchestrator; inside  *)
(* orchestrate_parallel the tasks run on the worker threads of a           *)
(* ThreadPoolExecutor, each blocked on one child process.                  *)
(***************************************************************************)
EXTENDS Integers, Sequences, FiniteSets, TLC

VARIABLES
    agents,        \* self.agents: name -> descriptor, or Unregistered
    disk,          \* the script paths that exist on disk (os.path.exists)
    results,       \* self.results, the result history
    call,          \* what the caller thread is executing
    tasks,         \* the tasks of the call in progress (of the last call when idle)
    fut,           \* per task: the state of its run and of its future
    notified,      \* as_completed's waiter: futures finished since the snapshot, in finishing order
    batchResults,  \* orchestrate_parallel's local list `results`
    ret,           \* what the last call gave back to the caller
    pipe,          \* the frame of run_feature_pipeline, below the dispatch in progress
    existedAtReg,  \* observation: per name, whether its script existed when it was registered
    before,        \* observation: the history when the call in progress was entered
    finished,      \* observation: the outcomes of the runs that are over and not yet collected, in finishing order
    regs,          \* observation: the register_agent calls a program made in a row, with what each found on disk
    tasksFile,     \* fredfix_agent: the content of tasks.json
    testRuns,      \* fredfix_agent: the call of run_parallel_tests and, per test file, the worker thread that runs it
    callers        \* per thread of a program that calls orchestrate_parallel from two threads: its call

\* what goes on beside the one caller thread and its calls
aside == <<regs, tasksFile, testRuns, callers>>

vars == <<agents, disk, results, call, tasks, fut, notified, batchResults, ret,
          pipe, existedAtReg, before, finished, aside>>

-----------------------------------------------------------------------------
(* Bounds of the model and constants of the program *)

\* longest batch handed to orchestrate_parallel under Spec
MaxTasks == 1
\* longest batch handed to orchestrate_parallel under SpecPool
MaxPoolTasks == 5
\* most tasks of a SpecPool batch that go to the agent that hangs
MaxHanging == 1
\* longest result history the dispatches of Spec build up
MaxHistory == 1
\* longest history on which a pipeline is started, its own results included
MaxPipelineHistory == 5
\* longest batch handed to orchestrate_parallel under SpecLive
MaxLiveTasks == 5
\* longest batch a thread hands to orchestrate_parallel under SpecThreads
MaxThreadTasks == 2
\* longest history a pipeline may leave behind under SpecRepeat
MaxRepeatHistory == 6
\* most test files glob finds for run_parallel_tests
MaxTestFiles == 2
\* most register_agent calls the log keeps
MaxRegisterCalls == 3
\* ThreadPoolExecutor(max_workers=min(len(tasks), 4))
MaxWorkers == 4
\* subprocess.run(..., timeout=60)
SpawnTimeout == 60
\* fredfix_agent's run_test_file: subprocess.run(..., timeout=30)
TestFileTimeout == 30

Min(a, b) == IF a < b THEN a ELSE b

-----------------------------------------------------------------------------
(* The values the program works on *)

\* the agents of main() and of the pipeline
AllAgents == {"planner", "refactor", "test_gen", "doc_gen", "reviewer"}

\* the agents the direct runs and the batches name
AgentNames == {"refactor", "test_gen"}

PlannerScript == "agents/planner_agent.py"
RefactorScript == "agents/refactor_agent.py"
TestGenScript == "agents/test_generator_agent.py"
DocGenScript == "agents/doc_generator_agent.py"
ReviewScript == "agents/review_agent.py"
Paths == {RefactorScript, TestGenScript}
AllPaths == {PlannerScript, RefactorScript, TestGenScript, DocGenScript, ReviewScript}

\* the flag of a name that is not a key of self.agents
Unregistered == [registered |-> FALSE]

Descriptor(script_path, description, active) ==
    [registered |-> TRUE, script |-> script_path,
     description |-> description, active |-> active]

\* the registrations of main()
ScriptOf(name) ==
    CASE name = "planner" -> PlannerScript
      [] name = "refactor" -> RefactorScript
      [] name = "test_gen" -> TestGenScript
      [] name = "doc_gen" -> DocGenScript
      [] name = "reviewer" -> ReviewScript
DescriptionOf(name) ==
    CASE name = "planner" -> "Task planning and breakdown"
      [] name = "refactor" -> "Code refactoring and optimization"
      [] name = "test_gen" -> "Automated test generation"
      [] name = "doc_gen" -> "Documentation generation"
      [] name = "reviewer" -> "Code review and quality check"

\* task payloads: a dict of strings, and a dict holding a set (json.dumps rejects it)
Payloads == {[type |-> "str", val |-> "performance"],
             [type |-> "set", val |-> "edge_cases"]}

\* captured bytes of a child's stdout and stderr
HiBytes == <<104, 105>>
NoBytes == <<110, 111>>
BadBytes == <<255>>
StdoutBytes == {<<>>, HiBytes, BadBytes}
StderrBytes == {<<>>, NoBytes}
ExitCodes == {0, 1}

\* what a child that exits leaves behind
Exits == [returncode : ExitCodes, stdout : StdoutBytes, stderr : StderrBytes]

\* a child that prints "hi" and exits with status zero
OkExit == [returncode |-> 0, stdout |-> HiBytes, stderr |-> <<>>]

-----------------------------------------------------------------------------
(* AgentResult and the outcome of one spawn_agent invocation *)

\* a variant that lists what a successful child printed as its artifact
AgentResultKeepsOutput(agent_name, success, output) ==
    [agent_name |-> agent_name, success |-> success,
     output |-> output, artifacts |-> IF success THEN <<output>> ELSE <<>>]

\* AgentResult(agent_name, success, output), as spawn_agent builds it on every
\* path: no artifacts argument, so __init__ stores `None or []`
AgentResult(agent_name, success, output) ==
    [agent_name |-> agent_name, success |-> success,
     output |-> output, artifacts |-> <<>>]

\* how a call or a library function ends: it returns a value or raises
Returned(value) == [kind |-> "returned", value |-> value]
Raised(exc) == [kind |-> "raised", exc |-> exc]

Exception(type, msg) == [type |-> type, msg |-> msg]

TimeoutExpired ==
    Exception("TimeoutExpired", "Command timed out after 60 seconds")
LaunchError ==
    Exception("FileNotFoundError", "[Errno 2] No such file or directory: 'python3'")
JsonTypeError ==
    Exception("TypeError", "Object of type set is not JSON serializable")
UnicodeDecodeError ==
    Exception("UnicodeDecodeError",
              "'utf-8' codec can't decode byte 0xff in position 0: invalid start byte")

\* json.dumps of a list of lists of artifact names; the lists are empty
RECURSIVE JsonLists(_)
JsonLists(lists) ==
    IF lists = <<>> THEN ""
    ELSE "[]" \o (IF Len(lists) > 1 THEN ", " ELSE "") \o JsonLists(Tail(lists))

\* json.dumps(task_data)
JsonDumps(data) ==
    CASE data.type = "str" ->
            Returned("{\"target\": \"" \o data.val \o "\"}")
      [] data.type = "request" ->
            Returned("{\"request\": \"" \o data.val \o "\", \"workspace\": \".\"}")
      [] data.type = "coverage" ->
            Returned("{\"coverage_target\": " \o ToString(data.val) \o "}")
      [] data.type = "format" ->
            Returned("{\"format\": \"" \o data.val \o "\"}")
      [] data.type = "artifacts" ->
            Returned("{\"artifacts\": [" \o JsonLists(data.val) \o "]}")
      [] OTHER -> Raised(JsonTypeError)

\* text=True: the captured bytes are decoded as UTF-8, strictly
Chr(b) == CASE b = 104 -> "h" [] b = 105 -> "i" [] b = 110 -> "n"
            [] b = 111 -> "o" [] OTHER -> "?"

Decodable(bytes) == \A i \in 1..Len(bytes) : bytes[i] < 128

RECURSIVE Decode(_)
Decode(bytes) ==
    IF bytes = <<>> THEN "" ELSE Chr(Head(bytes)) \o Decode(Tail(bytes))

\* what subprocess.run gives once the child has exited within the timeout
CompletedProcess(exit) ==
    IF Decodable(exit.stdout) /\ Decodable(exit.stderr)
    THEN Returned([returncode |-> exit.returncode,
                   stdout |-> Decode(exit.stdout),
                   stderr |-> Decode(exit.stderr)])
    ELSE Raised(UnicodeDecodeError)

\* a variant that catches TimeoutExpired alone
ExceptTimeoutOnly(agent_name, exc) ==
    IF exc.type = "TimeoutExpired"
    THEN Returned(AgentResult(agent_name, FALSE, "Agent execution timeout"))
    ELSE Raised(exc)

\* the except clauses of spawn_agent
Except(agent_name, exc) ==
    IF exc.type = "TimeoutExpired"
    THEN Returned(AgentResult(agent_name, FALSE, "Agent execution timeout"))
    ELSE Returned(AgentResult(agent_name, FALSE, exc.msg))

\* a variant that falls back to stdout when stderr is empty
OnCompletedFallback(agent_name, proc) ==
    IF proc.returncode = 0
    THEN Returned(AgentResult(agent_name, TRUE, proc.stdout))
    ELSE Returned(AgentResult(agent_name, FALSE,
                  IF proc.stderr # "" THEN proc.stderr ELSE proc.stdout))

\* the branch on result.returncode
OnCompleted(agent_name, proc) ==
    IF proc.returncode = 0
    THEN Returned(AgentResult(agent_name, TRUE, proc.stdout))
    ELSE Returned(AgentResult(agent_name, FALSE, proc.stderr))

\* spawn_agent from subprocess.run's return or raise to its own
AfterRun(agent_name, ran) ==
    IF ran.kind = "raised" THEN Except(agent_name, ran.exc)
    ELSE OnCompleted(agent_name, ran.value)

\* the two early returns of spawn_agent; NoShortCircuit when neither is taken
NoShortCircuit == [kind |-> "spawn"]

\* a variant that does not look at the active flag
ShortCircuitIgnoresActive(agent_name) ==
    IF ~agents[agent_name].registered
    THEN Returned(AgentResult(agent_name, FALSE,
                              "Agent " \o agent_name \o " not registered"))
    ELSE NoShortCircuit

\* a variant that lets an unknown name through to the launch
ShortCircuitIgnoresUnknown(agent_name) ==
    IF agents[agent_name].registered /\ ~agents[agent_name].active
    THEN Returned(AgentResult(agent_name, FALSE,
                  "Agent script " \o agents[agent_name].script \o " not found"))
    ELSE NoShortCircuit

\* a variant that looks for the script on disk again
ShortCircuitRechecks(agent_name) ==
    IF ~agents[agent_name].registered
    THEN Returned(AgentResult(agent_name, FALSE,
                              "Agent " \o agent_name \o " not registered"))
    ELSE IF agents[agent_name].script \notin disk
    THEN Returned(AgentResult(agent_name, FALSE,
                  "Agent script " \o agents[agent_name].script \o " not found"))
    ELSE NoShortCircuit

\* a variant whose failure for an unknown name does not carry the name
ShortCircuitAnonymous(agent_name) ==
    IF ~agents[agent_name].registered
    THEN Returned(AgentResult("unknown", FALSE,
                              "Agent " \o agent_name \o " not registered"))
    ELSE IF ~agents[agent_name].active
    THEN Returned(AgentResult(agent_name, FALSE,
                  "Agent script " \o agents[agent_name].script \o " not found"))
    ELSE NoShortCircuit

ShortCircuit(agent_name) ==
    IF ~agents[agent_name].registered
    THEN Returned(AgentResult(agent_name, FALSE,
                              "Agent " \o agent_name \o " not registered"))
    ELSE IF ~agents[agent_name].active
    THEN Returned(AgentResult(agent_name, FALSE,
                  "Agent script " \o agents[agent_name].script \o " not found"))
    ELSE NoShortCircuit

-----------------------------------------------------------------------------
(* Frames and return values of the caller thread *)

NoException == Exception("none", "")
ValueError == Exception("ValueError", "max_workers must be greater than 0")

Frame(op, phase, snapshot, exc) ==
    [op |-> op, phase |-> phase, snapshot |-> snapshot, exc |-> exc]

Idle == Frame("idle", "idle", {}, NoException)
NoReturn == [op |-> "none", outcome |-> [kind |-> "pending"]]

\* the frame of run_feature_pipeline: its position, its locals and, as
\* observations, the history at its entry and the phases it has dispatched
Pipeline(phase, planning_results, impl_results, review_results, entry, phases) ==
    [phase |-> phase, planning_results |-> planning_results,
     impl_results |-> impl_results, review_results |-> review_results,
     entry |-> entry, phases |-> phases]

-----------------------------------------------------------------------------
(* One spawn_agent invocation *)

\* the state of a task's run: st is new (not yet submitted), queued, running
\* (its thread is blocked in subprocess.run on a live child), done (spawn_agent
\* is over and the future holds its outcome) or yielded (as_completed gave it
\* to the caller).  child, seen and exit are observations for the properties:
\* the child process of this run, what the registry lookup found, and what
\* the child left behind.
NoChild == "none"
NotSeen == [registered |-> FALSE, active |-> FALSE, existed |-> FALSE]
NoExit == [returncode |-> -1, stdout |-> <<>>, stderr |-> <<>>]

Run(st, outcome, child, seen, exit) ==
    [st |-> st, outcome |-> outcome, child |-> child, seen |-> seen, exit |-> exit]

NewRun == Run("new", [kind |-> "pending"], NoChild, NotSeen, NoExit)
QueuedRun == Run("queued", [kind |-> "pending"], NoChild, NotSeen, NoExit)

Seen(agent_name) ==
    IF agents[agent_name].registered
    THEN [registered |-> TRUE, active |-> agents[agent_name].active,
          existed |-> existedAtReg[agent_name]]
    ELSE NotSeen

\* spawn_agent from its entry to the point where the child is running, or to
\* its return when no child comes to run; launch_ok is whether the operating
\* system manages to start python3
Begin(agent_name, data, launch_ok) ==
    LET sc == ShortCircuit(agent_name)
        json == JsonDumps(data)
    IN  IF sc.kind # "spawn"
        THEN Run("done", sc, NoChild, Seen(agent_name), NoExit)
        ELSE IF json.kind = "raised"
        THEN Run("done", Except(agent_name, json.exc), NoChild,
                 Seen(agent_name), NoExit)
        ELSE IF ~launch_ok
        THEN Run("done", Except(agent_name, LaunchError), NoChild,
                 Seen(agent_name), NoExit)
        ELSE Run("running", [kind |-> "pending"], "running",
                 Seen(agent_name), NoExit)

\* the child exits before the timeout: subprocess.run returns or raises
Exited(agent_name, run, exit) ==
    Run("done", AfterRun(agent_name, CompletedProcess(exit)), "exited",
        run.seen, exit)

\* a variant that gives up waiting and leaves the child alive
TimedOutNoKill(agent_name, run) ==
    Run("done", AfterRun(agent_name, Raised(TimeoutExpired)), "running",
        run.seen, NoExit)

\* the timeout elapses first: subprocess.run kills the child, reaps it and
\* raises TimeoutExpired
TimedOut(agent_name, run) ==
    Run("done", AfterRun(agent_name, Raised(TimeoutExpired)), "killed",
        run.seen, NoExit)

-----------------------------------------------------------------------------
(* The caller thread *)

\* no pipeline in progress
NoPipeline == Pipeline("idle", <<>>, <<>>, <<>>, <<>>, <<>>)

\* tasks.json does not exist
NoFile == [exists |-> FALSE]

\* the two threads of a program that shares one orchestrator between them
Threads == {"first", "second"}

\* the frame of orchestrate_parallel on a thread: its position, its tasks,
\* their futures, as_completed's snapshot and waiter, its local list and
\* what it returned
Call(phase, batch, runs, snapshot, told, collected, outcome) ==
    [phase |-> phase, tasks |-> batch, fut |-> runs, snapshot |-> snapshot,
     notified |-> told, batchResults |-> collected, outcome |-> outcome]

\* the thread is not inside orchestrate_parallel
NoCall == Call("idle", <<>>, <<>>, {}, <<>>, <<>>, [kind |-> "pending"])

\* run_parallel_tests has not been called
NoTests == [phase |-> "idle", runs |-> <<>>, all_passed |-> TRUE, earlier |-> <<>>]

\* a new orchestrator, on a disk that holds the scripts `scripts` and the
\* follow-up file `file`
New(scripts, file) ==
    /\ agents = [n \in AllAgents |-> Unregistered]
    /\ disk = scripts
    /\ results = <<>>
    /\ call = Idle
    /\ tasks = <<>>
    /\ fut = <<>>
    /\ notified = <<>>
    /\ batchResults = <<>>
    /\ ret = NoReturn
    /\ pipe = NoPipeline
    /\ existedAtReg = [n \in AllAgents |-> FALSE]
    /\ before = <<>>
    /\ finished = <<>>
    /\ regs = <<>>
    /\ tasksFile = file
    /\ testRuns = NoTests
    /\ callers = [t \in Threads |-> NoCall]

\* a new orchestrator, on a disk that holds the scripts `scripts`
Fresh(scripts) == New(scripts, NoFile)

Init == \E scripts \in SUBSET Paths : Fresh(scripts)

\* a variant that keeps the descriptor a name already has
RegisterAgentOnce(name, script_path, description) ==
    IF agents[name].registered THEN agents
    ELSE [agents EXCEPT
             ![name] = Descriptor(script_path, description, script_path \in disk)]

\* self.agents[name] = {"script": ..., "description": ...,
\*                      "active": os.path.exists(script_path)}
RegisterAgent(name, script_path, description) ==
    [agents EXCEPT
        ![name] = Descriptor(script_path, description, script_path \in disk)]

\* register_agent
Register(name, script_path, description) ==
    /\ call.op = "idle" /\ ret.op = "none"
    /\ agents' = RegisterAgent(name, script_path, description)
    /\ existedAtReg' = [existedAtReg EXCEPT ![name] = script_path \in disk]
    /\ UNCHANGED <<disk, results, call, tasks, fut, notified, batchResults, ret,
                   pipe, before, finished, aside>>

\* a register_agent call as the log keeps it: its arguments, whether the
\* script existed on disk, and how the call ended
RegisterCall(name, script_path, description) ==
    [name |-> name, script_path |-> script_path, description |-> description,
     existed |-> script_path \in disk, outcome |-> Returned("None")]

\* register_agent, called by a program that registers agents in a row (main,
\* the control panels) and logged
CallRegister(name, script_path, description) ==
    /\ call.op = "idle" /\ ret.op = "none"
    /\ Len(regs) < MaxRegisterCalls
    /\ agents' = RegisterAgent(name, script_path, description)
    /\ existedAtReg' = [existedAtReg EXCEPT ![name] = script_path \in disk]
    /\ regs' = Append(regs, RegisterCall(name, script_path, description))
    /\ UNCHANGED <<disk, results, call, tasks, fut, notified, batchResults, ret,
                   pipe, before, finished, tasksFile, testRuns, callers>>

\* the environment creates or removes a script file
DiskChange(path) ==
    /\ call.op = "idle" /\ ret.op = "none"
    /\ disk' = IF path \in disk THEN disk \ {path} ELSE disk \cup {path}
    /\ UNCHANGED <<agents, results, call, tasks, fut, notified, batchResults, ret,
                   pipe, existedAtReg, before, finished, aside>>

\* a direct call of spawn_agent, up to its return or to the running child
CallRun(agent_name, data, launch_ok) ==
    /\ call.op = "idle" /\ ret.op = "none"
    /\ pipe.phase = "idle"
    /\ LET run == Begin(agent_name, data, launch_ok)
       IN  /\ tasks' = <<[agent |-> agent_name, data |-> data]>>
           /\ fut' = <<run>>
           /\ call' = IF run.st = "done" THEN Idle
                      ELSE Frame("run", "child", {}, NoException)
           /\ ret' = IF run.st = "done"
                     THEN [op |-> "run", outcome |-> run.outcome]
                     ELSE NoReturn
           /\ finished' = IF run.st = "done" THEN <<run.outcome>> ELSE <<>>
    /\ notified' = <<>>
    /\ batchResults' = <<>>
    /\ before' = results
    /\ UNCHANGED <<agents, disk, results, pipe, existedAtReg, aside>>

-----------------------------------------------------------------------------
(* Child processes *)

Running == {i \in DOMAIN fut : fut[i].st = "running"}

\* a variant that kills every child of the batch
KilledAll(i) == Running

\* the runs whose child the expiry of run i's timeout kills
Killed(i) == {i}

\* what subprocess.run sees of a child that was killed from outside
KilledExit == [returncode |-> -9, stdout |-> <<>>, stderr |-> <<>>]

\* the runs after run i's child has exited
AfterExit(i, exit) ==
    [fut EXCEPT ![i] = Exited(tasks[i].agent, fut[i], exit)]

\* the runs after run i's timeout has elapsed
AfterTimeout(i) ==
    [j \in DOMAIN fut |->
        IF j = i THEN TimedOut(tasks[i].agent, fut[i])
        ELSE IF j \in Killed(i) /\ fut[j].st = "running"
        THEN Exited(tasks[j].agent, fut[j], KilledExit)
        ELSE fut[j]]

\* the indices of `after` that finished in this step, in index order
RECURSIVE NewlyDone(_, _)
NewlyDone(after, i) ==
    IF i > Len(after) THEN <<>>
    ELSE IF fut[i].st # "done" /\ after[i].st = "done"
    THEN <<i>> \o NewlyDone(after, i + 1)
    ELSE NewlyDone(after, i + 1)

\* the outcomes of the runs `which` of `after`, in that order
Outcomes(after, which) == [k \in DOMAIN which |-> after[which[k]].outcome]

\* runs end: a direct call returns to the caller; in a batch the futures are
\* set and as_completed's waiter, once installed, is told
Finish(after) ==
    /\ fut' = after
    /\ finished' = finished \o Outcomes(after, NewlyDone(after, 1))
    /\ IF call.op = "run"
       THEN /\ call' = Idle
            /\ ret' = [op |-> "run", outcome |-> after[1].outcome]
            /\ notified' = notified
       ELSE /\ call' = call
            /\ ret' = ret
            /\ notified' = IF call.phase = "collect"
                           THEN notified \o NewlyDone(after, 1)
                           ELSE notified
    /\ UNCHANGED <<agents, disk, results, tasks, batchResults, pipe, existedAtReg,
                   before, aside>>

ChildExit(i, exit) ==
    /\ i \in Running
    /\ Finish(AfterExit(i, exit))

ChildTimeout(i) ==
    /\ i \in Running
    /\ Finish(AfterTimeout(i))

-----------------------------------------------------------------------------
(* orchestrate_parallel *)

\* a variant without the cap: one worker per task
PoolSizeUncapped(n) == n

\* a variant with a single worker
PoolSizeOne(n) == Min(n, 1)

\* ThreadPoolExecutor(max_workers=min(len(tasks), 4))
PoolSize(n) == Min(n, MaxWorkers)

\* orchestrate_parallel is entered: the executor is created, or refuses a
\* pool of no worker
Dispatch(batch) ==
    /\ tasks' = batch
    /\ fut' = [i \in 1..Len(batch) |-> NewRun]
    /\ notified' = <<>>
    /\ batchResults' = <<>>
    /\ before' = results
    /\ finished' = <<>>
    /\ IF PoolSize(Len(batch)) <= 0
       THEN /\ call' = Idle
            /\ ret' = [op |-> "dispatch", outcome |-> Raised(ValueError)]
       ELSE /\ call' = Frame("dispatch", "submit", {}, NoException)
            /\ ret' = NoReturn
    /\ UNCHANGED <<agents, disk, results, existedAtReg, aside>>

\* a call of orchestrate_parallel by the program, on a history that leaves
\* room for the batch's results
CallDispatch(batch, room) ==
    /\ call.op = "idle" /\ ret.op = "none"
    /\ pipe.phase = "idle"
    /\ Len(results) + Len(batch) <= room
    /\ Dispatch(batch)
    /\ UNCHANGED pipe

\* executor.submit of the next task of the dict comprehension
Submit(i) ==
    /\ call.op = "dispatch" /\ call.phase = "submit"
    /\ i \in DOMAIN fut /\ fut[i].st = "new"
    /\ \A j \in 1..(i - 1) : fut[j].st # "new"
    /\ fut' = [fut EXCEPT ![i] = QueuedRun]
    /\ UNCHANGED <<agents, disk, results, call, tasks, notified, batchResults, ret,
                   pipe, existedAtReg, before, finished, aside>>

\* a variant whose worker threads end after one work item
StartNoReuse(i, launch_ok) ==
    /\ call.op = "dispatch"
    /\ i \in DOMAIN fut /\ fut[i].st = "queued"
    /\ \A j \in 1..(i - 1) : fut[j].st # "queued"
    /\ Cardinality({j \in DOMAIN fut : fut[j].st \in {"running", "done", "yielded"}})
          < PoolSize(Len(tasks))
    /\ Finish([fut EXCEPT ![i] = Begin(tasks[i].agent, tasks[i].data, launch_ok)])

\* a worker thread takes the oldest queued work item and runs spawn_agent
Start(i, launch_ok) ==
    /\ call.op = "dispatch"
    /\ i \in DOMAIN fut /\ fut[i].st = "queued"
    /\ \A j \in 1..(i - 1) : fut[j].st # "queued"
    /\ Cardinality(Running) < PoolSize(Len(tasks))
    /\ Finish([fut EXCEPT ![i] = Begin(tasks[i].agent, tasks[i].data, launch_ok)])

\* a variant that waits on the pending futures only and forgets the others
BeginCollectPendingOnly ==
    /\ call.op = "dispatch" /\ call.phase = "submit"
    /\ \A i \in DOMAIN fut : fut[i].st # "new"
    /\ call' = Frame("dispatch", "collect", {}, NoException)
    /\ fut' = [i \in DOMAIN fut |->
                 IF fut[i].st = "done" THEN [fut[i] EXCEPT !.st = "yielded"]
                 ELSE fut[i]]
    /\ notified' = <<>>
    /\ UNCHANGED <<agents, disk, results, tasks, batchResults, ret, pipe,
                   existedAtReg, before, finished, aside>>

\* as_completed is entered: the futures already finished are set apart and
\* a waiter is installed on the others
BeginCollect ==
    /\ call.op = "dispatch" /\ call.phase = "submit"
    /\ \A i \in DOMAIN fut : fut[i].st # "new"
    /\ call' = Frame("dispatch", "collect",
                     {i \in DOMAIN fut : fut[i].st = "done"}, NoException)
    /\ notified' = <<>>
    /\ UNCHANGED <<agents, disk, results, tasks, fut, batchResults, ret, pipe,
                   existedAtReg, before, finished, aside>>

\* the sequence without the first of its elements equal to x
RECURSIVE Without(_, _)
Without(seq, x) ==
    IF seq = <<>> THEN <<>>
    ELSE IF Head(seq) = x THEN Tail(seq)
    ELSE <<Head(seq)>> \o Without(Tail(seq), x)

\* a variant that leaves the history alone
CollectNoHistory(i) ==
    /\ call.op = "dispatch" /\ call.phase = "collect"
    /\ IF call.snapshot # {} THEN i \in call.snapshot
       ELSE notified # <<>> /\ i = Head(notified)
    /\ notified' = IF call.snapshot # {} THEN notified ELSE Tail(notified)
    /\ fut' = [fut EXCEPT ![i].st = "yielded"]
    /\ batchResults' = Append(batchResults, fut[i].outcome.value)
    /\ results' = results
    /\ call' = [call EXCEPT !.snapshot = call.snapshot \ {i}]
    /\ finished' = Without(finished, fut[i].outcome)
    /\ UNCHANGED <<agents, disk, tasks, ret, pipe, existedAtReg, before, aside>>

\* one turn of the for loop: as_completed yields a future of the snapshot (a
\* set, in no order), or else the future that finished first since;
\* future.result() returns the run's result or raises what the run raised
Collect(i) ==
    /\ call.op = "dispatch" /\ call.phase = "collect"
    /\ IF call.snapshot # {} THEN i \in call.snapshot
       ELSE notified # <<>> /\ i = Head(notified)
    /\ notified' = IF call.snapshot # {} THEN notified ELSE Tail(notified)
    /\ fut' = [fut EXCEPT ![i].st = "yielded"]
    /\ IF fut[i].outcome.kind = "returned"
       THEN /\ batchResults' = Append(batchResults, fut[i].outcome.value)
            /\ results' = Append(results, fut[i].outcome.value)
            /\ call' = [call EXCEPT !.snapshot = call.snapshot \ {i}]
       ELSE /\ batchResults' = batchResults
            /\ results' = results
            /\ call' = Frame("dispatch", "unwind", {}, fut[i].outcome.exc)
    /\ finished' = Without(finished, fut[i].outcome)
    /\ UNCHANGED <<agents, disk, tasks, ret, pipe, existedAtReg, before, aside>>

\* a variant that returns what it has once no finished future is left to
\* yield, without waiting for the runs still under way
DispatchReturnNoWait ==
    /\ call.op = "dispatch" /\ call.phase = "collect"
    /\ call.snapshot = {} /\ notified = <<>>
    /\ ret' = [op |-> "dispatch", outcome |-> Returned(batchResults)]
    /\ call' = Idle
    /\ UNCHANGED <<agents, disk, results, tasks, fut, notified, batchResults,
                   pipe, existedAtReg, before, finished, aside>>

\* a variant that returns from inside the loop, with the first result
DispatchReturnAfterFirst ==
    /\ call.op = "dispatch" /\ call.phase = "collect"
    /\ batchResults # <<>>
    /\ ret' = [op |-> "dispatch", outcome |-> Returned(batchResults)]
    /\ call' = Idle
    /\ UNCHANGED <<agents, disk, results, tasks, fut, notified, batchResults,
                   pipe, existedAtReg, before, finished, aside>>

\* the with block ends (shutdown(wait=True) lets every work item finish) and
\* orchestrate_parallel returns its list, or lets the exception through
DispatchReturn ==
    /\ call.op = "dispatch"
    /\ IF call.phase = "collect"
       THEN \A i \in DOMAIN fut : fut[i].st = "yielded"
       ELSE call.phase = "unwind"
            /\ \A i \in DOMAIN fut : fut[i].st \in {"done", "yielded"}
    /\ ret' = [op |-> "dispatch",
               outcome |-> IF call.phase = "collect" THEN Returned(batchResults)
                           ELSE Raised(call.exc)]
    /\ call' = Idle
    /\ UNCHANGED <<agents, disk, results, tasks, fut, notified, batchResults,
                   pipe, existedAtReg, before, finished, aside>>

\* the caller takes what the call gave back and goes on
Resume ==
    /\ call.op = "idle" /\ ret.op # "none"
    /\ pipe.phase = "idle"
    /\ ret' = NoReturn
    /\ tasks' = <<>>
    /\ fut' = <<>>
    /\ notified' = <<>>
    /\ batchResults' = <<>>
    /\ pipe' = NoPipeline
    /\ before' = results
    /\ finished' = <<>>
    /\ UNCHANGED <<agents, disk, results, call, existedAtReg, aside>>

-----------------------------------------------------------------------------
(* run_feature_pipeline *)

PlanningTasks(feature_request) ==
    <<[agent |-> "planner", data |-> [type |-> "request", val |-> feature_request]]>>

\* a variant that leaves the documentation agent out
ImplementationTasksNoDocs ==
    <<[agent |-> "refactor", data |-> [type |-> "str", val |-> "code_quality"]],
      [agent |-> "test_gen", data |-> [type |-> "coverage", val |-> 80]]>>

ImplementationTasks ==
    <<[agent |-> "refactor", data |-> [type |-> "str", val |-> "code_quality"]],
      [agent |-> "test_gen", data |-> [type |-> "coverage", val |-> 80]],
      [agent |-> "doc_gen", data |-> [type |-> "format", val |-> "markdown"]]>>

ReviewTasks(impl_results) ==
    <<[agent |-> "reviewer",
       data |-> [type |-> "artifacts",
                 val |-> [k \in DOMAIN impl_results |-> impl_results[k].artifacts]]]>>

\* all(r.success for r in results)
All(rs) == \A k \in DOMAIN rs : rs[k].success

\* the most results one pipeline adds to the history
PipelineResults ==
    Len(PlanningTasks("")) + Len(ImplementationTasks) + Len(ReviewTasks(<<>>))

\* run_feature_pipeline is called and dispatches the planning task
CallPipeline(feature_request, room) ==
    /\ call.op = "idle" /\ ret.op = "none"
    /\ pipe.phase = "idle"
    /\ Len(results) + PipelineResults <= room
    /\ pipe' = Pipeline("planning", <<>>, <<>>, <<>>, results, <<"planning">>)
    /\ Dispatch(PlanningTasks(feature_request))

\* the pipeline lets an exception of orchestrate_parallel through
PipelineRaise ==
    /\ pipe' = [pipe EXCEPT !.phase = "idle"]
    /\ ret' = [op |-> "pipeline", outcome |-> Raised(ret.outcome.exc)]
    /\ UNCHANGED <<agents, disk, results, call, tasks, fut, notified, batchResults,
                   existedAtReg, before, finished, aside>>

\* the pipeline returns `value`
PipelineReturns(frame, value) ==
    /\ pipe' = [frame EXCEPT !.phase = "idle"]
    /\ ret' = [op |-> "pipeline", outcome |-> Returned(value)]
    /\ UNCHANGED <<agents, disk, results, call, tasks, fut, notified, batchResults,
                   existedAtReg, before, finished, aside>>

\* a variant that goes on to the implementation whatever the planning gave
AfterPlanningNoGate ==
    /\ pipe.phase = "planning"
    /\ call.op = "idle" /\ ret.op = "dispatch"
    /\ IF ret.outcome.kind = "raised" THEN PipelineRaise
       ELSE /\ pipe' = [pipe EXCEPT !.phase = "impl",
                                     !.planning_results = ret.outcome.value,
                                     !.phases = Append(pipe.phases, "impl")]
            /\ Dispatch(ImplementationTasks)

\* the planning batch is back: the pipeline returns False when the planning
\* failed, and dispatches the implementation batch otherwise
AfterPlanning ==
    /\ pipe.phase = "planning"
    /\ call.op = "idle" /\ ret.op = "dispatch"
    /\ IF ret.outcome.kind = "raised" THEN PipelineRaise
       ELSE IF ~All(ret.outcome.value)
       THEN PipelineReturns([pipe EXCEPT !.planning_results = ret.outcome.value],
                            FALSE)
       ELSE /\ pipe' = [pipe EXCEPT !.phase = "impl",
                                     !.planning_results = ret.outcome.value,
                                     !.phases = Append(pipe.phases, "impl")]
            /\ Dispatch(ImplementationTasks)

\* a variant that returns False without a review when the implementation failed
AfterImplementationGated ==
    /\ pipe.phase = "impl"
    /\ call.op = "idle" /\ ret.op = "dispatch"
    /\ IF ret.outcome.kind = "raised" THEN PipelineRaise
       ELSE IF ~All(ret.outcome.value)
       THEN PipelineReturns([pipe EXCEPT !.impl_results = ret.outcome.value], FALSE)
       ELSE /\ pipe' = [pipe EXCEPT !.phase = "review",
                                     !.impl_results = ret.outcome.value,
                                     !.phases = Append(pipe.phases, "review")]
            /\ Dispatch(ReviewTasks(ret.outcome.value))

\* the implementation batch is back: the pipeline dispatches the review task
AfterImplementation ==
    /\ pipe.phase = "impl"
    /\ call.op = "idle" /\ ret.op = "dispatch"
    /\ IF ret.outcome.kind = "raised" THEN PipelineRaise
       ELSE /\ pipe' = [pipe EXCEPT !.phase = "review",
                                     !.impl_results = ret.outcome.value,
                                     !.phases = Append(pipe.phases, "review")]
            /\ Dispatch(ReviewTasks(ret.outcome.value))

\* a variant that returns what the review gave alone
AfterReviewIgnoresImplementation ==
    /\ pipe.phase = "review"
    /\ call.op = "idle" /\ ret.op = "dispatch"
    /\ IF ret.outcome.kind = "raised" THEN PipelineRaise
       ELSE PipelineReturns([pipe EXCEPT !.review_results = ret.outcome.value],
                            All(ret.outcome.value))

\* the review batch is back: the pipeline returns all_success
AfterReview ==
    /\ pipe.phase = "review"
    /\ call.op = "idle" /\ ret.op = "dispatch"
    /\ IF ret.outcome.kind = "raised" THEN PipelineRaise
       ELSE PipelineReturns([pipe EXCEPT !.review_results = ret.outcome.value],
                            All(pipe.impl_results \o ret.outcome.value))

-----------------------------------------------------------------------------
(* get_summary, and the control panel's Clear History button *)

RECURSIVE GCD(_, _)
GCD(a, b) == IF b = 0 THEN a ELSE GCD(b, a % b)

\* the number n / d, in lowest terms; Python computes the rate in double
\* precision, rounding the quotient and then the product, and the model keeps
\* the exact value
Fraction(n, d) == [num |-> n \div GCD(n, d), den |-> d \div GCD(n, d)]

ZeroDivisionError == Exception("ZeroDivisionError", "division by zero")

\* a / b on integers
TrueDiv(a, b) ==
    IF b = 0 THEN Raised(ZeroDivisionError) ELSE Returned(Fraction(a, b))

\* q * k
Times(q, k) == Fraction(q.num * k, q.den)

\* sum(1 for r in self.results if r.success)
RECURSIVE SumSuccess(_)
SumSuccess(rs) ==
    IF rs = <<>> THEN 0
    ELSE (IF Head(rs).success THEN 1 ELSE 0) + SumSuccess(Tail(rs))

\* a variant without the guard on an empty history
SuccessRateUnguarded(successful, total) ==
    LET q == TrueDiv(successful, total)
    IN  IF q.kind = "raised" THEN q ELSE Returned(Times(q.value, 100))

\* (successful / total * 100) if total > 0 else 0
SuccessRate(successful, total) ==
    IF total > 0
    THEN LET q == TrueDiv(successful, total)
         IN  IF q.kind = "raised" THEN q ELSE Returned(Times(q.value, 100))
    ELSE Returned(Fraction(0, 1))

\* get_summary on the history `history`
GetSummary(history) ==
    LET total == Len(history)
        successful == SumSuccess(history)
        rate == SuccessRate(successful, total)
    IN  IF rate.kind = "raised" THEN rate
        ELSE Returned([total_agents |-> total,
                       successful |-> successful,
                       failed |-> total - successful,
                       success_rate |-> rate.value,
                       results |-> [k \in DOMAIN history |->
                                       [agent |-> history[k].agent_name,
                                        success |-> history[k].success]]])

\* a variant that empties the history it has summarised
CallSummaryResets ==
    /\ call.op = "idle" /\ ret.op = "none"
    /\ pipe.phase = "idle"
    /\ ret' = [op |-> "summary", outcome |-> GetSummary(results)]
    /\ results' = <<>>
    /\ before' = results
    /\ UNCHANGED <<agents, disk, call, tasks, fut, notified, batchResults,
                   pipe, existedAtReg, finished, aside>>

\* a call of get_summary by the program
CallSummary ==
    /\ call.op = "idle" /\ ret.op = "none"
    /\ pipe.phase = "idle"
    /\ ret' = [op |-> "summary", outcome |-> GetSummary(results)]
    /\ before' = results
    /\ UNCHANGED <<agents, disk, results, call, tasks, fut, notified, batchResults,
                   pipe, existedAtReg, finished, aside>>

\* the Clear History button of the execution history tab, shown when the
\* history is not empty: orchestrator.results = []
ClearHistory ==
    /\ call.op = "idle" /\ ret.op = "none"
    /\ pipe.phase = "idle"
    /\ results # <<>>
    /\ results' = <<>>
    /\ before' = <<>>
    /\ UNCHANGED <<agents, disk, call, tasks, fut, notified, batchResults, ret,
                   pipe, existedAtReg, finished, aside>>

-----------------------------------------------------------------------------
(* Specifications *)

Tasks == [agent : AgentNames, data : Payloads]

Batches(S, n) == UNION {[1..k -> S] : k \in 0..n}

\* the orchestrator with every input: registration, the disk changing under
\* it, direct runs and batches of up to MaxTasks tasks
Next ==
    \/ \E n \in AgentNames : Register(n, ScriptOf(n), DescriptionOf(n))
    \/ \E p \in Paths : DiskChange(p)
    \/ \E n \in AgentNames, d \in Payloads, ok \in BOOLEAN : CallRun(n, d, ok)
    \/ \E b \in Batches(Tasks, MaxTasks) : CallDispatch(b, MaxHistory)
    \/ \E i \in DOMAIN fut : Submit(i)
    \/ \E i \in DOMAIN fut, ok \in BOOLEAN : Start(i, ok)
    \/ \E i \in DOMAIN fut, x \in Exits : ChildExit(i, x)
    \/ \E i \in DOMAIN fut : ChildTimeout(i)
    \/ BeginCollect
    \/ \E i \in DOMAIN fut : Collect(i)
    \/ DispatchReturn
    \/ Resume

Spec == Init /\ [][Next]_vars

\* the dispatcher under load: both scripts exist, refactor's prints "hi" and
\* exits with status zero, test_gen's hangs until its timeout; batches of up
\* to MaxPoolTasks tasks, up to MaxHanging of them for test_gen, dispatched on
\* a fresh history
InitPool == Fresh(Paths)

PoolTasks == [agent : AgentNames, data : {[type |-> "str", val |-> "performance"]}]

Hanging(batch) == {i \in DOMAIN batch : batch[i].agent = "test_gen"}

PoolBatches ==
    {b \in Batches(PoolTasks, MaxPoolTasks) : Cardinality(Hanging(b)) <= MaxHanging}

NextPool ==
    \/ \E n \in AgentNames : Register(n, ScriptOf(n), DescriptionOf(n))
    \/ \E b \in PoolBatches : CallDispatch(b, Len(b))
    \/ \E i \in DOMAIN fut : Submit(i)
    \/ \E i \in DOMAIN fut : Start(i, TRUE)
    \/ \E i \in DOMAIN fut \ Hanging(tasks) : ChildExit(i, OkExit)
    \/ \E i \in Hanging(tasks) : ChildTimeout(i)
    \/ BeginCollect
    \/ \E i \in DOMAIN fut : Collect(i)
    \/ DispatchReturn
    \/ Resume

SpecPool == InitPool /\ [][NextPool]_vars

\* the pipeline, the summary and the Clear History button: the five agents
\* of main() are registered in any order, on a disk that holds every script
\* or every script but test_gen's; a child exits with status zero, exits with
\* status one or hangs until its timeout; a pipeline is started on a history
\* that leaves room for its results
InitPipeline == \E scripts \in {AllPaths, AllPaths \ {TestGenScript}} : Fresh(scripts)

FailExit == [returncode |-> 1, stdout |-> <<>>, stderr |-> NoBytes]

FeatureRequests == {"add login"}

NextPipeline ==
    \/ \E n \in AllAgents : Register(n, ScriptOf(n), DescriptionOf(n))
    \/ \E r \in FeatureRequests : CallPipeline(r, MaxPipelineHistory)
    \/ AfterPlanning
    \/ AfterImplementation
    \/ AfterReview
    \/ \E i \in DOMAIN fut : Submit(i)
    \/ \E i \in DOMAIN fut : Start(i, TRUE)
    \/ \E i \in DOMAIN fut, x \in {OkExit, FailExit} : ChildExit(i, x)
    \/ \E i \in DOMAIN fut : ChildTimeout(i)
    \/ BeginCollect
    \/ \E i \in DOMAIN fut : Collect(i)
    \/ DispatchReturn
    \/ CallSummary
    \/ ClearHistory
    \/ Resume

SpecPipeline == InitPipeline /\ [][NextPipeline]_vars

\* a variant that gives the runs of a batch the limit of fredfix_agent's
\* test files
RunTimeoutShortInBatch(in_batch) ==
    IF in_batch THEN TestFileTimeout ELSE SpawnTimeout

\* the limit subprocess.run is given: timeout=60, in a direct call as in a
\* worker thread of a batch; spawn_agent has no parameter for it
RunTimeout(in_batch) == SpawnTimeout

\* the seconds a child needs to finish its work, when left alone
Needs(agent_name) == IF agent_name = "refactor" THEN 45 ELSE 90

\* the child of run i finishes before subprocess.run's limit
ChildExitsInTime(i, exit) ==
    /\ i \in DOMAIN tasks
    /\ Needs(tasks[i].agent) < RunTimeout(call.op = "dispatch")
    /\ ChildExit(i, exit)

\* the child of run i is still at work when subprocess.run's limit is over
ChildOutOfTime(i) ==
    /\ i \in DOMAIN tasks
    /\ Needs(tasks[i].agent) >= RunTimeout(call.op = "dispatch")
    /\ ChildTimeout(i)

\* runs against the clock: both scripts exist, refactor's needs 45 seconds
\* and test_gen's 90; direct runs and batches of up to MaxTasks tasks
NextTimed ==
    \/ \E n \in AgentNames : Register(n, ScriptOf(n), DescriptionOf(n))
    \/ \E n \in AgentNames, d \in Payloads : CallRun(n, d, TRUE)
    \/ \E b \in Batches(Tasks, MaxTasks) : CallDispatch(b, MaxHistory)
    \/ \E i \in DOMAIN fut : Submit(i)
    \/ \E i \in DOMAIN fut : Start(i, TRUE)
    \/ \E i \in DOMAIN fut, x \in {OkExit, FailExit} : ChildExitsInTime(i, x)
    \/ \E i \in DOMAIN fut : ChildOutOfTime(i)
    \/ BeginCollect
    \/ \E i \in DOMAIN fut : Collect(i)
    \/ DispatchReturn
    \/ Resume

SpecTimed == InitPool /\ [][NextTimed]_vars

\* what python3 leaves behind when it cannot open the script it is given
NoScriptExit == [returncode |-> 2, stdout |-> <<>>, stderr |-> NoBytes]

\* the child of run i exits: python3 ran the script, or found no script
ScriptExit(i, exit) ==
    /\ i \in Running
    /\ IF agents[tasks[i].agent].script \in disk
       THEN exit \in {OkExit, FailExit}
       ELSE exit = NoScriptExit
    /\ ChildExit(i, exit)

\* the script of run i hangs until the timeout
ScriptHangs(i) ==
    /\ i \in Running
    /\ agents[tasks[i].agent].script \in disk
    /\ ChildTimeout(i)

\* the disk changing under the registry: planner and test_gen are
\* registered, their scripts appear and disappear between the calls, and the
\* program makes direct runs, batches of up to MaxTasks tasks, pipelines and
\* summaries
DiskAgents == {"planner", "test_gen"}

DiskTasks == [agent : DiskAgents, data : {[type |-> "str", val |-> "performance"]}]

InitDisk == \E scripts \in SUBSET {ScriptOf(n) : n \in DiskAgents} : Fresh(scripts)

NextDisk ==
    \/ \E n \in DiskAgents : Register(n, ScriptOf(n), DescriptionOf(n))
    \/ \E n \in DiskAgents : DiskChange(ScriptOf(n))
    \/ \E t \in DiskTasks : CallRun(t.agent, t.data, TRUE)
    \/ \E b \in Batches(DiskTasks, MaxTasks) : CallDispatch(b, MaxHistory)
    \/ \E r \in FeatureRequests : CallPipeline(r, MaxPipelineHistory)
    \/ AfterPlanning
    \/ AfterImplementation
    \/ AfterReview
    \/ \E i \in DOMAIN fut : Submit(i)
    \/ \E i \in DOMAIN fut : Start(i, TRUE)
    \/ \E i \in DOMAIN fut, x \in {OkExit, FailExit, NoScriptExit} : ScriptExit(i, x)
    \/ \E i \in DOMAIN fut : ScriptHangs(i)
    \/ BeginCollect
    \/ \E i \in DOMAIN fut : Collect(i)
    \/ DispatchReturn
    \/ CallSummary
    \/ Resume

SpecDisk == InitDisk /\ [][NextDisk]_vars

\* main(): the five agents are registered in main's order, then the program
\* dispatches; every script exists, test_gen's hangs until its timeout and
\* the others print "hi" and exit with status zero; batches of 1 to
\* MaxLiveTasks tasks of which the first may be test_gen's, and pipelines
MainOrder == <<"planner", "refactor", "test_gen", "doc_gen", "reviewer">>

RegisterInOrder(k) ==
    /\ \A j \in 1..(k - 1) : agents[MainOrder[j]].registered
    /\ ~agents[MainOrder[k]].registered
    /\ Register(MainOrder[k], ScriptOf(MainOrder[k]), DescriptionOf(MainOrder[k]))

AllRegistered == \A n \in AllAgents : agents[n].registered

LiveBatches ==
    {b \in Batches(PoolTasks, MaxLiveTasks) : b # <<>> /\ Hanging(b) \subseteq {1}}

\* the child of run i comes to its end: it exits, or hangs until the timeout
ChildEnds(i) ==
    /\ i \in DOMAIN tasks
    /\ IF i \in Hanging(tasks) THEN ChildTimeout(i) ELSE ChildExit(i, OkExit)

NextLive ==
    \/ \E k \in DOMAIN MainOrder : RegisterInOrder(k)
    \/ \E b \in LiveBatches : AllRegistered /\ CallDispatch(b, Len(b))
    \/ \E r \in FeatureRequests : AllRegistered /\ CallPipeline(r, PipelineResults)
    \/ AfterPlanning
    \/ AfterImplementation
    \/ AfterReview
    \/ \E i \in DOMAIN fut : Submit(i)
    \/ \E i \in DOMAIN fut : Start(i, TRUE)
    \/ \E i \in DOMAIN fut : ChildEnds(i)
    \/ BeginCollect
    \/ \E i \in DOMAIN fut : Collect(i)
    \/ DispatchReturn
    \/ Resume

\* the thread positions: each step of a thread changes one of them
position == <<call, fut, pipe>>

\* the next step of the caller thread inside a call
CallerStep ==
    \/ \E i \in DOMAIN fut : Submit(i)
    \/ BeginCollect
    \/ \E i \in DOMAIN fut : Collect(i)
    \/ DispatchReturn
    \/ AfterPlanning
    \/ AfterImplementation
    \/ AfterReview

\* the threads of the program keep running: the caller thread goes on with
\* its submits, its collection and its returns, a free worker thread takes
\* the next work item, and a child that is alive comes to its end
Fairness ==
    /\ WF_position(CallerStep)
    /\ WF_position(\E i \in DOMAIN fut : Start(i, TRUE))
    /\ WF_position(\E i \in DOMAIN fut : ChildEnds(i))

SpecLive == Fresh(AllPaths) /\ [][NextLive]_vars /\ Fairness

\* a program that calls run_feature_pipeline again and again while main's
\* registrations go on: a pipeline called before the planner is registered
\* fails in its planning, a later one goes through its three phases with
\* children that exit with status zero or one
NextRepeat ==
    \/ \E k \in DOMAIN MainOrder : RegisterInOrder(k)
    \/ \E r \in FeatureRequests : CallPipeline(r, MaxRepeatHistory)
    \/ AfterPlanning
    \/ AfterImplementation
    \/ AfterReview
    \/ \E i \in DOMAIN fut : Submit(i)
    \/ \E i \in DOMAIN fut : Start(i, TRUE)
    \/ \E i \in DOMAIN fut, x \in {OkExit, FailExit} : ChildExit(i, x)
    \/ BeginCollect
    \/ \E i \in DOMAIN fut : Collect(i)
    \/ DispatchReturn
    \/ Resume

SpecRepeat == Fresh(AllPaths) /\ [][NextRepeat]_vars

-----------------------------------------------------------------------------
(* fredfix_agent: run_parallel_tests and create_followup_task *)

\* the orchestrator, which fredfix_agent does not use
orchestrator == <<agents, disk, results, call, tasks, fut, notified, batchResults,
                  ret, pipe, existedAtReg, before, finished, regs, callers>>

\* an entry of tasks.json (its timestamp is left out)
Followup(task_description) == [task |-> task_description, status |-> "pending"]

\* the length of json.dump(tasks, f, indent=2): 2 characters for the
\* brackets and, per entry, 96 around its description
RECURSIVE JsonLen(_)
JsonLen(entries) ==
    IF entries = <<>> THEN 2
    ELSE 96 + Len(Head(entries).task) + JsonLen(Tail(entries))

\* tasks.json holding `bytes` characters; valid tells whether they parse as
\* a JSON list, and entries is that list
File(valid, entries, bytes) ==
    [exists |-> TRUE, valid |-> valid, entries |-> entries, bytes |-> bytes]

\* json.dump of a list into a new file
Dumped(entries) == File(TRUE, entries, JsonLen(entries))

\* open("tasks.json", "w"): the file is created or cut to nothing
Truncated == File(FALSE, <<>>, 0)

\* json.dump and close on a file opened before: the text goes to the start
\* of the file, over what another writer has put there since, and what was
\* longer stays behind it
Written(text) ==
    IF tasksFile.bytes <= JsonLen(text) THEN Dumped(text)
    ELSE File(FALSE, <<>>, tasksFile.bytes)

TestFile(i) == "test_" \o ToString(i) \o ".py"

\* the thread of one test file: st is queued, running (blocked on the
\* child), load, open and dump (the steps of create_followup_task), or done;
\* passed is what run_test_file returns, logged whether the follow-up was
\* written
TestRun(st, description, local, passed, logged) ==
    [st |-> st, description |-> description, local |-> local,
     passed |-> passed, logged |-> logged]

\* run_parallel_tests is called and glob finds n test files; earlier is an
\* observation, the entries tasks.json holds at that moment
CallParallelTests(n) ==
    /\ testRuns.phase = "idle"
    /\ testRuns' =
          [phase |-> IF n = 0 THEN "returned" ELSE "running",
           runs |-> [i \in 1..n |-> TestRun("queued", "", <<>>, FALSE, FALSE)],
           all_passed |-> TRUE,
           earlier |-> IF tasksFile.exists THEN tasksFile.entries ELSE <<>>]
    /\ UNCHANGED <<tasksFile, orchestrator>>

\* the threads of the pool that have taken a test file and not returned
Busy == {i \in DOMAIN testRuns.runs : testRuns.runs[i].st \notin {"queued", "done"}}

\* a free worker thread takes the next test file and launches python3 on it
TestStart(i) ==
    /\ testRuns.phase = "running"
    /\ i \in DOMAIN testRuns.runs /\ testRuns.runs[i].st = "queued"
    /\ \A j \in 1..(i - 1) : testRuns.runs[j].st # "queued"
    /\ Cardinality(Busy) < Min(Len(testRuns.runs), MaxWorkers)
    /\ testRuns' = [testRuns EXCEPT !.runs[i].st = "running"]
    /\ UNCHANGED <<tasksFile, orchestrator>>

\* the child exits within 30 seconds: the file passed, or run_test_file
\* calls create_followup_task with the first line of stderr
TestExit(i, returncode, stderr) ==
    /\ i \in DOMAIN testRuns.runs /\ testRuns.runs[i].st = "running"
    /\ testRuns' =
          [testRuns EXCEPT !.runs[i] =
              IF returncode = 0 THEN TestRun("done", "", <<>>, TRUE, FALSE)
              ELSE TestRun("load",
                           "Fix failing tests in " \o TestFile(i) \o ": "
                              \o (IF stderr # "" THEN stderr ELSE "Unknown error"),
                           <<>>, FALSE, FALSE)]
    /\ UNCHANGED <<tasksFile, orchestrator>>

\* the child is still running after 30 seconds
TestTimeout(i) ==
    /\ i \in DOMAIN testRuns.runs /\ testRuns.runs[i].st = "running"
    /\ testRuns' =
          [testRuns EXCEPT !.runs[i] =
              TestRun("load", "Investigate timeout in test file " \o TestFile(i),
                      <<>>, FALSE, FALSE)]
    /\ UNCHANGED <<tasksFile, orchestrator>>

\* create_followup_task reads tasks.json, if it exists, and appends its
\* entry to the list; a file that does not parse makes json.load raise, and
\* the except clause gives the entry up
FollowupLoad(i) ==
    /\ i \in DOMAIN testRuns.runs /\ testRuns.runs[i].st = "load"
    /\ LET run == testRuns.runs[i]
           entry == Followup(run.description)
       IN  testRuns' =
              [testRuns EXCEPT !.runs[i] =
                  IF ~tasksFile.exists
                  THEN [run EXCEPT !.st = "open", !.local = <<entry>>]
                  ELSE IF tasksFile.valid
                  THEN [run EXCEPT !.st = "open",
                                   !.local = Append(tasksFile.entries, entry)]
                  ELSE [run EXCEPT !.st = "done"]]
    /\ UNCHANGED <<tasksFile, orchestrator>>

\* open("tasks.json", "w")
FollowupOpen(i) ==
    /\ i \in DOMAIN testRuns.runs /\ testRuns.runs[i].st = "open"
    /\ tasksFile' = Truncated
    /\ testRuns' = [testRuns EXCEPT !.runs[i].st = "dump"]
    /\ UNCHANGED orchestrator

\* json.dump(tasks, f, indent=2) and the end of the with block
FollowupDump(i) ==
    /\ i \in DOMAIN testRuns.runs /\ testRuns.runs[i].st = "dump"
    /\ tasksFile' = Written(testRuns.runs[i].local)
    /\ testRuns' = [testRuns EXCEPT !.runs[i].st = "done", !.runs[i].logged = TRUE]
    /\ UNCHANGED orchestrator

\* every future has been collected: run_parallel_tests returns all_passed
TestsReturn ==
    /\ testRuns.phase = "running"
    /\ \A i \in DOMAIN testRuns.runs : testRuns.runs[i].st = "done"
    /\ testRuns' = [testRuns EXCEPT
                       !.phase = "returned",
                       !.all_passed = \A i \in DOMAIN testRuns.runs :
                                         testRuns.runs[i].passed]
    /\ UNCHANGED <<tasksFile, orchestrator>>

\* run_parallel_tests on up to MaxTestFiles test files, each of which
\* passes, fails or hangs, in a directory where tasks.json does not exist or
\* holds one entry
EarlierEntries == <<Followup("Fix runtime error in main.py: boom")>>

InitTests == \E file \in {NoFile, Dumped(EarlierEntries)} : New({}, file)

NextTests ==
    \/ \E n \in 0..MaxTestFiles : CallParallelTests(n)
    \/ \E i \in DOMAIN testRuns.runs : TestStart(i)
    \/ \E i \in DOMAIN testRuns.runs, rc \in ExitCodes, err \in {"", "boom"} :
          TestExit(i, rc, err)
    \/ \E i \in DOMAIN testRuns.runs : TestTimeout(i)
    \/ \E i \in DOMAIN testRuns.runs : FollowupLoad(i)
    \/ \E i \in DOMAIN testRuns.runs : FollowupOpen(i)
    \/ \E i \in DOMAIN testRuns.runs : FollowupDump(i)
    \/ TestsReturn

SpecTests == InitTests /\ [][NextTests]_vars

-----------------------------------------------------------------------------
(* orchestrate_parallel called from two threads on one orchestrator *)

\* everything but the registry, the history and the two threads' calls
single == <<disk, call, tasks, fut, notified, batchResults, ret, pipe,
            existedAtReg, before, finished, regs, tasksFile, testRuns>>

\* the agent a thread dispatches to: the first thread's children exit with
\* status zero, the second thread's hang until their timeout
AgentOf(t) == IF t = "first" THEN "refactor" ELSE "test_gen"

BatchOf(t, n) ==
    [i \in 1..n |-> [agent |-> AgentOf(t),
                     data |-> [type |-> "str", val |-> "performance"]]]

\* thread t enters orchestrate_parallel with a batch of its own
ThreadCall(t, batch) ==
    /\ call.op = "idle" /\ ret.op = "none"
    /\ callers[t].phase = "idle"
    /\ PoolSize(Len(batch)) > 0
    /\ callers' = [callers EXCEPT
                      ![t] = Call("submit", batch, [i \in DOMAIN batch |-> NewRun],
                                  {}, <<>>, <<>>, [kind |-> "pending"])]
    /\ UNCHANGED <<agents, results, single>>

\* executor.submit of the thread's next task
ThreadSubmit(t, i) ==
    /\ callers[t].phase = "submit"
    /\ i \in DOMAIN callers[t].fut /\ callers[t].fut[i].st = "new"
    /\ \A j \in 1..(i - 1) : callers[t].fut[j].st # "new"
    /\ callers' = [callers EXCEPT ![t].fut[i] = QueuedRun]
    /\ UNCHANGED <<agents, results, single>>

\* the frame once its runs are `after`: the futures that finished are told
\* to as_completed's waiter, when it is installed
Told(frame, after) ==
    LET now == {i \in DOMAIN after :
                   frame.fut[i].st # "done" /\ after[i].st = "done"}
        i == CHOOSE i \in now : TRUE
    IN  [frame EXCEPT
            !.fut = after,
            !.notified = IF frame.phase = "collect" /\ now # {}
                         THEN Append(frame.notified, i)
                         ELSE frame.notified]

\* a worker thread of t's pool takes the oldest queued work item
ThreadStart(t, i) ==
    /\ callers[t].phase \in {"submit", "collect"}
    /\ i \in DOMAIN callers[t].fut /\ callers[t].fut[i].st = "queued"
    /\ \A j \in 1..(i - 1) : callers[t].fut[j].st # "queued"
    /\ Cardinality({j \in DOMAIN callers[t].fut : callers[t].fut[j].st = "running"})
          < PoolSize(Len(callers[t].tasks))
    /\ callers' =
          [callers EXCEPT
              ![t] = Told(callers[t],
                          [callers[t].fut EXCEPT
                              ![i] = Begin(callers[t].tasks[i].agent,
                                           callers[t].tasks[i].data, TRUE)])]
    /\ UNCHANGED <<agents, results, single>>

\* the child of t's run i comes to its end
ThreadChildEnds(t, i) ==
    /\ i \in DOMAIN callers[t].fut /\ callers[t].fut[i].st = "running"
    /\ callers' =
          [callers EXCEPT
              ![t] = Told(callers[t],
                          [callers[t].fut EXCEPT
                              ![i] = IF callers[t].tasks[i].agent = "test_gen"
                                     THEN TimedOut(callers[t].tasks[i].agent,
                                                   callers[t].fut[i])
                                     ELSE Exited(callers[t].tasks[i].agent,
                                                 callers[t].fut[i], OkExit)])]
    /\ UNCHANGED <<agents, results, single>>

\* thread t enters as_completed
ThreadBeginCollect(t) ==
    /\ callers[t].phase = "submit"
    /\ \A i \in DOMAIN callers[t].fut : callers[t].fut[i].st # "new"
    /\ callers' =
          [callers EXCEPT
              ![t].phase = "collect",
              ![t].snapshot = {i \in DOMAIN callers[t].fut :
                                  callers[t].fut[i].st = "done"}]
    /\ UNCHANGED <<agents, results, single>>

\* a variant that makes the history the list of its own call
HistoryFromOwn(t, result) == Append(callers[t].batchResults, result)

\* self.results.append(result): one step of the interpreter, on the list
\* as it is at that moment
HistoryWith(t, result) == Append(results, result)

\* one turn of t's for loop: results.append(result) on its own list and
\* self.results.append(result) on the history both threads share
ThreadCollect(t, i) ==
    /\ callers[t].phase = "collect"
    /\ IF callers[t].snapshot # {} THEN i \in callers[t].snapshot
       ELSE callers[t].notified # <<>> /\ i = Head(callers[t].notified)
    /\ callers' =
          [callers EXCEPT
              ![t].notified = IF callers[t].snapshot # {} THEN callers[t].notified
                              ELSE Tail(callers[t].notified),
              ![t].snapshot = callers[t].snapshot \ {i},
              ![t].fut[i].st = "yielded",
              ![t].batchResults =
                  Append(callers[t].batchResults, callers[t].fut[i].outcome.value)]
    /\ results' = HistoryWith(t, callers[t].fut[i].outcome.value)
    /\ UNCHANGED <<agents, single>>

\* t's with block ends and its orchestrate_parallel returns its list
ThreadReturn(t) ==
    /\ callers[t].phase = "collect"
    /\ \A i \in DOMAIN callers[t].fut : callers[t].fut[i].st = "yielded"
    /\ callers' = [callers EXCEPT
                      ![t].phase = "returned",
                      ![t].outcome = Returned(callers[t].batchResults)]
    /\ UNCHANGED <<agents, results, single>>

\* two threads of one program: after main's registrations each thread calls
\* orchestrate_parallel once, on 1 to MaxThreadTasks tasks, at any moment
NextThreads ==
    \/ \E k \in DOMAIN MainOrder : RegisterInOrder(k)
    \/ \E t \in Threads, n \in 1..MaxThreadTasks :
          AllRegistered /\ ThreadCall(t, BatchOf(t, n))
    \/ \E t \in Threads, i \in 1..MaxThreadTasks : ThreadSubmit(t, i)
    \/ \E t \in Threads, i \in 1..MaxThreadTasks : ThreadStart(t, i)
    \/ \E t \in Threads, i \in 1..MaxThreadTasks : ThreadChildEnds(t, i)
    \/ \E t \in Threads : ThreadBeginCollect(t)
    \/ \E t \in Threads, i \in 1..MaxThreadTasks : ThreadCollect(t, i)
    \/ \E t \in Threads : ThreadReturn(t)

SpecThreads == Fresh(AllPaths) /\ [][NextThreads]_vars

\* the registry: a program registers agents in a row, any name with any
\* script and any description, the same name again included, while scripts
\* appear on disk and disappear, and runs the agents it registered
Descriptions == {DescriptionOf(n) : n \in AgentNames}

NextRegistry ==
    \/ \E n \in AgentNames, p \in Paths, d \in Descriptions : CallRegister(n, p, d)
    \/ \E p \in Paths : DiskChange(p)
    \/ \E n \in AgentNames : CallRun(n, [type |-> "str", val |-> "performance"], TRUE)
    \/ \E x \in {OkExit, FailExit} : ChildExit(1, x)
    \/ Resume

SpecRegistry == Init /\ [][NextRegistry]_vars

-----------------------------------------------------------------------------
(* Properties of the process runner *)

Over == {i \in DOMAIN fut : fut[i].st \in {"done", "yielded"}}

IsAgentResult(r, agent_name) ==
    /\ r.agent_name = agent_name
    /\ r.success \in BOOLEAN
    /\ r.output \in STRING
    /\ r.artifacts = <<>>

\* the launch of run i threw: the agent was available and the payload
\* serialisable, yet no child came to run
LaunchThrew(i) ==
    /\ i \in Over
    /\ fut[i].seen.registered /\ fut[i].seen.active
    /\ JsonDumps(tasks[i].data).kind = "returned"
    /\ fut[i].child = NoChild

\* C1: whatever the agent's state (unregistered, unavailable, launch throws,
\* times out, non-zero exit, zero exit) and whatever the payload, spawn_agent
\* ends by returning one AgentResult for the agent it was called with, never
\* by raising, in a direct call as in a worker thread; when the launch
\* throws, the result is a failure whose output is the exception's message
C1_RunAlwaysReturnsResult ==
    /\ ret.op = "run" =>
          /\ ret.outcome.kind = "returned"
          /\ IsAgentResult(ret.outcome.value, tasks[1].agent)
    /\ \A i \in Over :
          /\ fut[i].outcome.kind = "returned"
          /\ IsAgentResult(fut[i].outcome.value, tasks[i].agent)
    /\ \A i \in DOMAIN fut :
          LaunchThrew(i) =>
             fut[i].outcome.value = AgentResult(tasks[i].agent, FALSE, LaunchError.msg)

C1_Witness ==
    /\ ret.op = "run"
    /\ LaunchThrew(1)
    /\ ret.outcome.kind = "returned"
    /\ ~ret.outcome.value.success
    /\ ret.outcome.value.output = LaunchError.msg

\* run i spawned a child that exited with status zero before the timeout
ExitedZero(i) == fut[i].child = "exited" /\ fut[i].exit.returncode = 0

\* C2: a run's result has success = true if and only if a child was spawned
\* and exited with status zero before its timeout; its output is then the
\* child's captured standard output
C2_SuccessIffZeroExit ==
    \A i \in Over :
        fut[i].outcome.kind = "returned" =>
           /\ fut[i].outcome.value.success <=> ExitedZero(i)
           /\ ExitedZero(i) => fut[i].outcome.value.output = Decode(fut[i].exit.stdout)

\* an agent registered while its script did not exist
RegisteredMissing(seen) == seen.registered /\ ~seen.existed

\* C3: an agent registered with a script path that does not exist has
\* active = false, and every run dispatched to it afterwards, directly or in
\* a batch, ends in a failure result without a child process being spawned,
\* also when the script has appeared on disk since
C3_MissingScriptShortCircuits ==
    /\ \A n \in AgentNames :
          agents[n].registered /\ ~existedAtReg[n] => ~agents[n].active
    /\ \A i \in DOMAIN fut :
          RegisteredMissing(fut[i].seen) =>
             /\ fut[i].child = NoChild
             /\ fut[i].st \in {"done", "yielded"}
             /\ fut[i].outcome.kind = "returned"
             /\ ~fut[i].outcome.value.success

C3_Witness ==
    /\ ret.op = "dispatch"
    /\ ret.outcome.kind = "returned"
    /\ Len(ret.outcome.value) = 1
    /\ RegisteredMissing(fut[1].seen)
    /\ ~ret.outcome.value[1].success
    /\ agents[tasks[1].agent].script \in disk

\* C4 as claimed: a run on a name that was never registered returns a
\* failure result whose output is "agent not registered", and spawns no child
C4_UnregisteredOutputAsClaimed ==
    \A i \in Over :
        ~fut[i].seen.registered =>
           /\ fut[i].child = NoChild
           /\ fut[i].outcome.kind = "returned"
           /\ ~fut[i].outcome.value.success
           /\ fut[i].outcome.value.output = "agent not registered"

\* C4 amended: a run on a name that was never registered returns a failure
\* result whose output is "Agent <name> not registered", with the name
\* asked for in it, and spawns no child
C4_UnregisteredFails ==
    \A i \in DOMAIN fut :
        (fut[i].st \in {"running", "done", "yielded"} /\ ~fut[i].seen.registered) =>
           /\ fut[i].child = NoChild
           /\ fut[i].st # "running"
           /\ fut[i].outcome.kind = "returned"
           /\ ~fut[i].outcome.value.success
           /\ fut[i].outcome.value.output =
                 "Agent " \o tasks[i].agent \o " not registered"

C4_Witness ==
    /\ ret.op = "run"
    /\ ~fut[1].seen.registered
    /\ ret.outcome.kind = "returned"
    /\ ret.outcome.value.output = "Agent refactor not registered"

\* run i spawned a child that exited with a non-zero status before the timeout
ExitedNonZero(i) == fut[i].child = "exited" /\ fut[i].exit.returncode # 0

Expired(i) == fut[i].child = "killed" /\ fut[i].exit = NoExit

\* C6 as claimed: when the timeout elapses before the child exits, the child
\* is terminated before the run returns and the result is a failure whose
\* output is "execution timeout"
C6_TimeoutOutputAsClaimed ==
    \A i \in Over :
        /\ fut[i].child # "running"
        /\ Expired(i) =>
              /\ fut[i].outcome.kind = "returned"
              /\ ~fut[i].outcome.value.success
              /\ fut[i].outcome.value.output = "execution timeout"

\* C6 amended: when the timeout elapses before the child exits, the child is
\* terminated before the run returns (no child of a finished run is alive)
\* and the result is a failure whose output is "Agent execution timeout"
C6_TimeoutKillsChild ==
    \A i \in Over :
        /\ fut[i].child # "running"
        /\ Expired(i) =>
              /\ fut[i].outcome.kind = "returned"
              /\ ~fut[i].outcome.value.success
              /\ fut[i].outcome.value.output = "Agent execution timeout"

C6_Witness ==
    /\ ret.op = "run"
    /\ Expired(1)
    /\ ret.outcome.kind = "returned"
    /\ ret.outcome.value.output = "Agent execution timeout"

-----------------------------------------------------------------------------
(* Properties of the dispatcher *)

Count(seq, Test(_)) == Cardinality({k \in DOMAIN seq : Test(seq[k])})

Range(seq) == {seq[k] : k \in DOMAIN seq}

IsPrefix(a, b) == Len(a) <= Len(b) /\ SubSeq(b, 1, Len(a)) = a

DispatchReturned == ret.op = "dispatch" /\ ret.outcome.kind = "returned"

\* the outcome of a task of the pool scenario when its agent is run alone
Alone(task) ==
    LET begun == Begin(task.agent, task.data, TRUE)
    IN  IF begun.st = "done" THEN begun.outcome
        ELSE IF task.agent = "test_gen"
        THEN TimedOut(task.agent, begun).outcome
        ELSE Exited(task.agent, begun, OkExit).outcome

\* C7: orchestrate_parallel on a batch of N >= 1 tasks returns N results,
\* each the outcome of the run of one submitted task (as many equal results
\* as there are tasks that ended so), so that the successes returned are as
\* many as the tasks whose run succeeded, wherever in the batch the failing
\* task was submitted
C7_OneResultPerTask ==
    DispatchReturned =>
       LET out == ret.outcome.value
           mine == [i \in DOMAIN fut |-> fut[i].outcome]
       IN  /\ Len(out) = Len(tasks)
           /\ \A i \in DOMAIN fut : mine[i].kind = "returned"
           /\ \A r \in Range(out) \cup {mine[i].value : i \in DOMAIN fut} :
                 Count(out, LAMBDA x : x = r) =
                 Count(mine, LAMBDA x : x.value = r)
           /\ Count(out, LAMBDA x : x.success) =
                 Count(tasks, LAMBDA t : Alone(t).value.success)

C7_Witness ==
    /\ DispatchReturned
    /\ Len(tasks) = 3
    /\ tasks[1].agent = "test_gen"
    /\ Expired(1)
    /\ Count(ret.outcome.value, LAMBDA x : x.success) = 2
    /\ ret.outcome.value[3].agent_name = "test_gen"

\* C8: while orchestrate_parallel runs, the children of the batch that are
\* alive are never more than min(len(tasks), 4)
C8_AtMostFourChildren ==
    call.op = "dispatch" =>
       LET alive == {i \in DOMAIN fut : fut[i].child = "running"}
       IN  Cardinality(alive) <= Min(Len(tasks), MaxWorkers)

C8_Witness ==
    /\ call.op = "dispatch"
    /\ Len(tasks) > MaxWorkers
    /\ Cardinality({i \in DOMAIN fut : fut[i].child = "running"}) = MaxWorkers
    /\ \E i \in DOMAIN fut : fut[i].st = "queued"

\* C9: in a batch, a task that fails or times out cancels no sibling: every
\* task has been run when orchestrate_parallel returns, the outcome of each
\* is what its agent gives when run alone, and a timeout kills the child
\* that exceeded it and no other
C9_SiblingsUnaffected ==
    /\ DispatchReturned => Over = DOMAIN tasks
    /\ \A i \in Over :
          /\ fut[i].outcome = Alone(tasks[i])
          /\ fut[i].child = "killed" => i \in Hanging(tasks)
          /\ fut[i].exit # KilledExit

C9_Witness ==
    /\ call.op = "dispatch"
    /\ \E i \in Over, j \in Running :
          /\ Expired(i)
          /\ ~fut[i].outcome.value.success
          /\ tasks[j].agent = "refactor"

\* the oldest work item of the queue
Oldest(i) ==
    /\ i \in DOMAIN fut /\ fut[i].st = "queued"
    /\ \A j \in 1..(i - 1) : fut[j].st # "queued"

FreeWorker == Cardinality(Running) < PoolSize(Len(tasks))

\* C10 as claimed: in a batch of any size a task that fails or times out
\* never delays a sibling: while a child that will run into its timeout is
\* alive, the oldest queued task can still be started at once
C10_NeverDelayedAsClaimed ==
    call.op = "dispatch" =>
       \A i \in DOMAIN fut :
          (Oldest(i) /\ Running \cap Hanging(tasks) # {}) => FreeWorker

\* C10 amended: in a batch of at most 4 tasks no task ever waits for a
\* worker, whatever its siblings do: the oldest queued task can be started
\* at once (in a larger batch a task waits while 4 siblings are running)
C10_NotDelayedUpToFour ==
    (call.op = "dispatch" /\ Len(tasks) <= MaxWorkers) =>
       \A i \in DOMAIN fut : Oldest(i) => FreeWorker

C10_Witness ==
    /\ call.op = "dispatch"
    /\ Len(tasks) = MaxWorkers
    /\ Running \cap Hanging(tasks) # {}
    /\ Cardinality(Running) = MaxWorkers - 1
    /\ \E i \in DOMAIN fut : Oldest(i)

\* C11: when orchestrate_parallel has returned, every task of the batch has
\* resolved: its run is over (the child exited, was killed on its timeout, or
\* was never spawned) and none is still queued or running
C11_AllResolvedAtReturn ==
    ret.op = "dispatch" =>
       \A i \in DOMAIN tasks :
          /\ fut[i].st \in {"done", "yielded"}
          /\ fut[i].child \in {NoChild, "exited", "killed"}

C11_Witness ==
    /\ DispatchReturned
    /\ Len(tasks) = MaxWorkers + 1
    /\ \E i \in DOMAIN fut : Expired(i)
    /\ \E i \in DOMAIN fut : ExitedZero(i)
    /\ \A i \in DOMAIN fut : fut[i].st = "yielded"

\* C12: the list orchestrate_parallel returns is in completion order: each
\* result added to the list is the result of the run that finished first
\* among the runs not yet collected, the runs that finished before the
\* collection began included
C12_CompletionOrder ==
    [][(call.op = "dispatch" /\ Len(batchResults') > Len(batchResults)) =>
          /\ finished # <<>>
          /\ batchResults'[Len(batchResults')] = Head(finished).value]_vars

-----------------------------------------------------------------------------
(* Properties of the history, the pipeline and the summary *)

\* C13: every result orchestrate_parallel returns is appended to the history
\* exactly once: while the call runs the history is the history at its entry
\* followed by the results collected so far, and at the return what was added
\* to the history is the returned list, in the same order
C13_HistorySuffixIsReturned ==
    /\ call.op = "dispatch" => results = before \o batchResults
    /\ DispatchReturned => results = before \o ret.outcome.value

C13_Witness ==
    /\ DispatchReturned
    /\ before # <<>>
    /\ Len(ret.outcome.value) = Len(ImplementationTasks)
    /\ \E k \in DOMAIN ret.outcome.value : ret.outcome.value[k].success
    /\ \E k \in DOMAIN ret.outcome.value : ~ret.outcome.value[k].success

PipelineReturned == ret.op = "pipeline" /\ ret.outcome.kind = "returned"

\* C14: when the planning task's result is not successful,
\* run_feature_pipeline returns False having dispatched the planning batch
\* alone: no implementation task and no review task is dispatched in that
\* call, and the planner's result is all the call added to the history
C14_PlanningGate ==
    /\ Len(pipe.phases) > 1 =>
          Len(pipe.planning_results) = 1 /\ All(pipe.planning_results)
    /\ (ret.op = "pipeline" /\ ~All(pipe.planning_results)) =>
          /\ ret.outcome.kind = "returned"
          /\ ret.outcome.value = FALSE
          /\ pipe.phases = <<"planning">>
          /\ results = pipe.entry \o pipe.planning_results
          /\ \A k \in DOMAIN pipe.planning_results :
                pipe.planning_results[k].agent_name = "planner"

C14_Witness ==
    /\ PipelineReturned
    /\ Len(pipe.planning_results) = 1
    /\ ~pipe.planning_results[1].success
    /\ ExitedNonZero(1)
    /\ ret.outcome.value = FALSE

\* the implementation results that failed
FailedImplementation == {k \in DOMAIN pipe.impl_results : ~pipe.impl_results[k].success}

\* C15: once planning has succeeded, the review task is dispatched, after the
\* implementation batch has completed (its three results are in the history
\* by then), whatever the implementation tasks gave: the pipeline does not
\* return without it; when one implementation task fails while the other two
\* and the review succeed, the pipeline returns False and the review was run
C15_ReviewAlwaysDispatched ==
    /\ pipe.phase = "review" =>
          /\ Len(pipe.impl_results) = Len(ImplementationTasks)
          /\ IsPrefix(pipe.entry \o pipe.planning_results \o pipe.impl_results, results)
    /\ (ret.op = "pipeline" /\ Len(pipe.planning_results) = 1
           /\ All(pipe.planning_results)) =>
          /\ ret.outcome.kind = "returned"
          /\ pipe.phases = <<"planning", "impl", "review">>
          /\ Len(pipe.review_results) = 1
          /\ pipe.review_results[1].agent_name = "reviewer"
          /\ (Cardinality(FailedImplementation) = 1 /\ All(pipe.review_results)) =>
                ret.outcome.value = FALSE

C15_Witness ==
    /\ PipelineReturned
    /\ Len(pipe.impl_results) = Len(ImplementationTasks)
    /\ Cardinality(FailedImplementation) = 1
    /\ Len(pipe.review_results) = 1
    /\ pipe.review_results[1].success
    /\ ret.outcome.value = FALSE

\* C16: run_feature_pipeline returns True if and only if the planner task,
\* the three implementation tasks (refactor, test_gen, doc_gen) and the
\* reviewer task all succeeded
C16_PipelineIsConjunction ==
    ret.op = "pipeline" =>
       /\ ret.outcome.kind = "returned"
       /\ ret.outcome.value <=>
             /\ Len(pipe.planning_results) = 1
             /\ pipe.planning_results[1].agent_name = "planner"
             /\ pipe.planning_results[1].success
             /\ {r.agent_name : r \in {x \in Range(pipe.impl_results) : x.success}}
                   = {"refactor", "test_gen", "doc_gen"}
             /\ Len(pipe.review_results) = 1
             /\ pipe.review_results[1].agent_name = "reviewer"
             /\ pipe.review_results[1].success

C16_Witness ==
    /\ PipelineReturned
    /\ ret.outcome.value = TRUE
    /\ Len(results) = Len(pipe.entry) + PipelineResults
    /\ All(results)

\* C17: for a history of k successful and m failed results get_summary
\* returns total = k + m, successful = k, failed = m and
\* success_rate = 100 * k / (k + m), or 0 (and no division error) when the
\* history is empty; successful + failed = total
C17_SummaryCounts ==
    ret.op = "summary" =>
       LET k == Cardinality({i \in DOMAIN results : results[i].success})
           m == Cardinality({i \in DOMAIN results : ~results[i].success})
       IN  /\ ret.outcome.kind = "returned"
           /\ ret.outcome.value.total_agents = k + m
           /\ ret.outcome.value.successful = k
           /\ ret.outcome.value.failed = m
           /\ ret.outcome.value.successful + ret.outcome.value.failed
                 = ret.outcome.value.total_agents
           /\ IF k + m = 0
              THEN ret.outcome.value.success_rate = Fraction(0, 1)
              ELSE ret.outcome.value.success_rate.num * (k + m)
                      = 100 * k * ret.outcome.value.success_rate.den

C17_Witness ==
    /\ ret.op = "summary"
    /\ ret.outcome.kind = "returned"
    /\ ret.outcome.value.total_agents = PipelineResults
    /\ ret.outcome.value.successful = 3
    /\ ret.outcome.value.failed = 2
    /\ ret.outcome.value.success_rate = Fraction(60, 1)

\* C18 as claimed: the history is append-only: across every operation the
\* program performs, the history before is a prefix of the history after
C18_AppendOnly == [][IsPrefix(results, results')]_vars

\* C18 amended: across every operation of the orchestrator itself (register,
\* run, dispatch, pipeline, summary) the history before is a prefix of the
\* history after; the one step that shortens it is the Clear History button
\* of the control panel, between calls, which leaves it empty
C18_AppendOnlyUntilCleared ==
    [][\/ IsPrefix(results, results')
       \/ /\ call.op = "idle" /\ ret.op = "none" /\ pipe.phase = "idle"
          /\ results' = <<>>
          /\ ret' = ret]_vars

C18_Witness ==
    /\ call.op = "dispatch"
    /\ before # <<>>
    /\ batchResults # <<>>
    /\ results = before \o batchResults

\* C19: every run that has terminated has left one AgentResult, and once the
\* call that made it has returned, a direct spawn_agent call as well as
\* orchestrate_parallel, that result is in the history: the call added one
\* result per run to it
C19_EveryRunInHistory ==
    (ret.op \in {"run", "dispatch"} /\ ret.outcome.kind = "returned") =>
       /\ IsPrefix(before, results)
       /\ Len(results) = Len(before) + Len(tasks)
       /\ \A i \in DOMAIN fut :
             /\ fut[i].outcome.kind = "returned"
             /\ \E k \in (Len(before) + 1)..Len(results) :
                   results[k] = fut[i].outcome.value

\* C20: no exception escapes orchestrate_parallel: for every batch of
\* well-formed tasks, the empty batch included, it returns a list holding one
\* AgentResult per task
C20_DispatchNeverRaises ==
    ret.op = "dispatch" =>
       /\ ret.outcome.kind = "returned"
       /\ Len(ret.outcome.value) = Len(tasks)

-----------------------------------------------------------------------------
(* Properties of the registry *)

\* C21: register_agent is last-write-wins per name and idempotent: a call
\* never raises, whether the name is new or registered already; after it the
\* name's descriptor is the script path and the description of this call with
\* a flag that tells whether the script exists now, whatever the descriptor
\* was; every other name's descriptor is what it was; and a call that repeats
\* the one before it, on a disk where the script is as it was, leaves the
\* registry as it was
C21_LastWriteWins ==
    [][Len(regs') > Len(regs) =>
          LET c == regs'[Len(regs')]
          IN  /\ c.outcome.kind = "returned"
              /\ agents'[c.name] =
                    Descriptor(c.script_path, c.description, c.script_path \in disk)
              /\ \A m \in AllAgents \ {c.name} : agents'[m] = agents[m]
              /\ (regs # <<>> /\ regs[Len(regs)] = c) => agents' = agents]_vars

C21_Witness ==
    /\ Len(regs) = 3
    /\ regs[1].name = "test_gen"
    /\ regs[2].name = "refactor" /\ regs[3].name = "refactor"
    /\ regs[2].script_path # regs[3].script_path
    /\ regs[2].description # regs[3].description
    /\ regs[2].existed /\ ~regs[3].existed
    /\ agents["refactor"] = Descriptor(regs[3].script_path, regs[3].description, FALSE)
    /\ agents["test_gen"] = Descriptor(regs[1].script_path, regs[1].description, TRUE)

-----------------------------------------------------------------------------
(* Properties of the timeout *)

\* the runs of the call that spawned a child and are over
Spawned == {i \in Over : fut[i].child # NoChild}

InBatch == call.op = "dispatch" \/ ret.op = "dispatch"

-----------------------------------------------------------------------------
(* Properties of the pipeline's phases *)

\* run i is resolved: spawn_agent is over, its result was collected and its
\* child, if it had one, is gone
Resolved(i) ==
    /\ fut[i].st = "yielded"
    /\ fut[i].child \in {NoChild, "exited", "killed"}

\* C23: the phases of the pipeline are barriers: at the step that dispatches
\* the implementation batch the planning task is resolved and no
\* implementation task has started, and at the step that dispatches the
\* review task the three implementation tasks are resolved, their results in
\* the history, and the review task has not started; between these steps the
\* batch under way is the phase's own
C23_PhaseBarriers ==
    [][/\ (pipe.phase = "planning" /\ pipe'.phase = "impl") =>
             /\ tasks = PlanningTasks(tasks[1].data.val)
             /\ \A i \in DOMAIN tasks : Resolved(i)
             /\ tasks' = ImplementationTasks
             /\ \A i \in DOMAIN tasks' : fut'[i] = NewRun
       /\ (pipe.phase = "impl" /\ pipe'.phase = "review") =>
             /\ tasks = ImplementationTasks
             /\ \A i \in DOMAIN tasks : Resolved(i)
             /\ Len(results) = Len(pipe.entry) + 1 + Len(ImplementationTasks)
             /\ tasks' = ReviewTasks(pipe'.impl_results)
             /\ \A i \in DOMAIN tasks' : fut'[i] = NewRun
       /\ (pipe.phase = pipe'.phase /\ pipe.phase # "idle") => tasks' = tasks]_vars

C23_Witness ==
    /\ pipe.phase = "review"
    /\ call.op = "dispatch"
    /\ fut[1].st = "running"
    /\ Len(pipe.impl_results) = Len(ImplementationTasks)
    /\ pipe.impl_results[1].output = "Agent execution timeout"
    /\ pipe.impl_results[3].success

-----------------------------------------------------------------------------
(* Properties of the names in the results *)

NotRegisteredFailure(r) ==
    ~r.success /\ r.output = "Agent " \o r.agent_name \o " not registered"

\* C24 as claimed: every result a run or a batch returns, and every entry of
\* the history, carries the name of a registered agent
C24_NameRegisteredAsClaimed ==
    /\ \A i \in Over :
          fut[i].outcome.kind = "returned" =>
             agents[fut[i].outcome.value.agent_name].registered
    /\ \A k \in DOMAIN results : agents[results[k].agent_name].registered

\* C24 amended: every result carries the name its task asked for, registered
\* or not: the name was registered when the run began, or else the result is
\* the failure "Agent <name> not registered"; so every entry of the history
\* carries a registered name or is that failure
C24_NameEchoesTask ==
    /\ \A i \in Over :
          fut[i].outcome.kind = "returned" =>
             /\ fut[i].outcome.value.agent_name = tasks[i].agent
             /\ fut[i].seen.registered \/ NotRegisteredFailure(fut[i].outcome.value)
    /\ \A k \in DOMAIN results :
          /\ results[k].agent_name \in AgentNames
          /\ agents[results[k].agent_name].registered
                \/ NotRegisteredFailure(results[k])

C24_Witness ==
    /\ DispatchReturned
    /\ results = ret.outcome.value
    /\ Len(results) = 1
    /\ results[1].agent_name = "refactor"
    /\ ~agents["refactor"].registered
    /\ NotRegisteredFailure(results[1])

-----------------------------------------------------------------------------
(* Properties of the stored flag *)

\* C25: the active flag is fixed when register_agent is called and never
\* looked up on disk again: a step of a run, a batch, a pipeline or a summary
\* leaves the registry as it was, and so does a change of the disk; a run on
\* an agent whose stored flag is false returns the "not found" failure
\* without a child, also when the script is on disk by now, and a run on an
\* agent whose stored flag is true spawns a child, also when the script is
\* gone
C25_FlagFixedAtRegister ==
    [][/\ agents' # agents =>
             /\ call.op = "idle" /\ ret.op = "none" /\ pipe.phase = "idle"
             /\ UNCHANGED <<disk, results, call, tasks, fut, ret, pipe>>
       /\ \A i \in DOMAIN fut' :
             (fut'[i].st \in {"running", "done", "yielded"}
                /\ agents'[tasks'[i].agent].registered) =>
                IF agents'[tasks'[i].agent].active
                THEN fut'[i].child # NoChild
                ELSE /\ fut'[i].child = NoChild
                     /\ fut'[i].outcome =
                           Returned(AgentResult(tasks'[i].agent, FALSE,
                              "Agent script " \o agents'[tasks'[i].agent].script
                                 \o " not found"))]_vars

C25_Witness ==
    /\ PipelineReturned
    /\ PlannerScript \in disk
    /\ agents["planner"].registered
    /\ ~existedAtReg["planner"]
    /\ ~agents["planner"].active
    /\ pipe.planning_results =
          <<AgentResult("planner", FALSE, "Agent script " \o PlannerScript \o " not found")>>
    /\ results = pipe.planning_results

-----------------------------------------------------------------------------
(* Progress *)

Unstarted == {i \in DOMAIN fut : fut[i].st \in {"new", "queued"}}

\* C26: when every child comes to its end, a call of orchestrate_parallel on
\* a batch of one task or more, larger than the pool included, returns, and
\* by then every task of the batch has been started; and a call of
\* run_feature_pipeline returns
C26_EventuallyReturns ==
    /\ (call.op = "dispatch") ~> (ret.op = "dispatch" /\ Unstarted = {})
    /\ (pipe.phase # "idle") ~> (ret.op = "pipeline")

C26_Witness ==
    /\ DispatchReturned
    /\ pipe.phase = "idle"
    /\ Len(tasks) > MaxWorkers
    /\ Len(ret.outcome.value) = Len(tasks)
    /\ Hanging(tasks) = {1}
    /\ fut[1].outcome.value.output = "Agent execution timeout"
    /\ ret.outcome.value[Len(tasks)].success

-----------------------------------------------------------------------------
(* Properties of the follow-up file *)

\* the test files that did not pass
Failed == {i \in DOMAIN testRuns.runs : ~testRuns.runs[i].passed}

\* C27: when run_parallel_tests has returned, tasks.json holds one entry of
\* its own for every test file that failed or timed out, after the entries
\* that were in the file before
C27_EveryFailureLogged ==
    testRuns.phase = "returned" =>
       /\ \A i \in Failed :
             /\ tasksFile.exists /\ tasksFile.valid
             /\ Count(tasksFile.entries,
                      LAMBDA e : e = Followup(testRuns.runs[i].description)) = 1
       /\ testRuns.earlier # <<>> =>
             /\ tasksFile.exists /\ tasksFile.valid
             /\ IsPrefix(testRuns.earlier, tasksFile.entries)

-----------------------------------------------------------------------------
(* Properties of concurrent calls *)

\* the results of the history that carry the name of t's agent
Own(t) == SelectSeq(results, LAMBDA r : r.agent_name = AgentOf(t))

\* C28: when two calls of orchestrate_parallel run at once on one
\* orchestrator, each returns one result per task of its own batch and no
\* result of the other call, and the history holds every result of both
\* calls once: what a call has collected so far is, in the same order, what
\* the history holds of its agent, and once both calls have returned the
\* history is as long as the two batches together
C28_ConcurrentCallsKeepResults ==
    /\ \A t \in Threads :
          /\ Own(t) = callers[t].batchResults
          /\ callers[t].phase = "returned" =>
                /\ callers[t].outcome = Returned(callers[t].batchResults)
                /\ Len(callers[t].batchResults) = Len(callers[t].tasks)
                /\ \A k \in DOMAIN callers[t].batchResults :
                      /\ callers[t].batchResults[k].agent_name = AgentOf(t)
                      /\ \E i \in DOMAIN callers[t].fut :
                            callers[t].fut[i].outcome.value =
                               callers[t].batchResults[k]
    /\ (\A t \in Threads : callers[t].phase = "returned") =>
          Len(results) = Len(callers["first"].tasks) + Len(callers["second"].tasks)

C28_Witness ==
    /\ \A t \in Threads : callers[t].phase = "returned"
    /\ Len(callers["first"].tasks) = 2 /\ Len(callers["second"].tasks) = 2
    /\ results[1].agent_name = "test_gen"
    /\ results[2].agent_name = "refactor"
    /\ results[3].agent_name = "test_gen"
    /\ results[4].agent_name = "refactor"
    /\ results[4].success /\ ~results[3].success

-----------------------------------------------------------------------------
(* Properties of what a pipeline leaves in the history *)

\* what the pipeline's call has added to the history
Added == SubSeq(results, Len(pipe.entry) + 1, Len(results))

\* C29: when run_feature_pipeline has returned, the history is the history
\* at its entry followed by what the call added: the planner's result alone
\* when that result is not successful, and otherwise five results, the
\* planner's first, then the results of refactor, test_gen and doc_gen (one
\* each), then the reviewer's last
C29_PipelineAppends ==
    PipelineReturned =>
       /\ Len(results) > Len(pipe.entry)
       /\ SubSeq(results, 1, Len(pipe.entry)) = pipe.entry
       /\ Added[1].agent_name = "planner"
       /\ IF ~Added[1].success
          THEN Len(Added) = 1
          ELSE /\ Len(Added) = 5
               /\ \A n \in {"refactor", "test_gen", "doc_gen"} :
                     \E k \in 2..4 : Added[k].agent_name = n
               /\ Added[5].agent_name = "reviewer"
       /\ Added = pipe.planning_results \o pipe.impl_results \o pipe.review_results

C29_Witness ==
    /\ PipelineReturned
    /\ Len(pipe.entry) = 1 /\ ~pipe.entry[1].success
    /\ Len(Added) = 5
    /\ Added[1].success /\ ~Added[3].success /\ Added[5].success
    /\ ret.outcome.value = FALSE

\* C30: every AgentResult of a run has an empty artifacts list, whether the
\* run was short-circuited, completed with status zero or non-zero, or timed
\* out, so the payload of the review task is three empty lists of artifacts
C30_NoArtifacts ==
    /\ \A i \in DOMAIN fut :
          fut[i].outcome.kind = "returned" => fut[i].outcome.value.artifacts = <<>>
    /\ \A k \in DOMAIN results : results[k].artifacts = <<>>
    /\ pipe.phase = "review" =>
          /\ Len(pipe.impl_results) = 3
          /\ tasks = <<[agent |-> "reviewer",
                        data |-> [type |-> "artifacts",
                                  val |-> <<<<>>, <<>>, <<>>>>]]>>

C30_Witness ==
    /\ pipe.phase = "review"
    /\ \E k \in DOMAIN pipe.impl_results :
          pipe.impl_results[k].success /\ pipe.impl_results[k].output = "hi"
    /\ \E k \in DOMAIN pipe.impl_results :
          pipe.impl_results[k].output = "Agent execution timeout"
    /\ \E k \in DOMAIN pipe.impl_results :
          pipe.impl_results[k].output = "Agent doc_gen not registered"
    /\ fut # <<>> /\ fut[1].st = "running"

====
